---- MODULE Spec2Model ----
(***************************************************************************)
(* Model of langchain_core/load/load.py: the Reviver (node-level           *)
(* deserializer) and the recursive walker `load`.                          *)
(*                                                                         *)
(* A JSON value (and a revived value) is a record [t, v]:                  *)
(*   t = "str"  : v is the string            t = "int" : v is the number   *)
(*   t = "none" : Python None / JSON null                                  *)
(*   t = "list" : v is the sequence of element values                      *)
(*   t = "dict" : v is the sequence of entries [k, v] in insertion order   *)
(*   t = "obj"  : a live instance; v holds the class and the kwargs        *)
(* An exception is a record [exc, msg, arg]; NoError means "returned".     *)
(* Every operator that can raise returns [val, err, log]; log is the       *)
(* sequence of observable steps taken (reviver invocations, environment    *)
(* reads, imports, attribute lookups, constructor calls), in order.        *)
(***************************************************************************)
EXTENDS Integers, Sequences, FiniteSets, TLC

VARIABLES
    obj,                         \* load(obj, ...): the parsed JSON tree
    secrets_map,                 \* load(..., secrets_map=)
    valid_namespaces,            \* load(..., valid_namespaces=)
    secrets_from_env,            \* load(..., secrets_from_env=)
    additional_import_mappings,  \* load(..., additional_import_mappings=)
    environ,                     \* os.environ
    pc,                          \* "start" before the call, "done" after it
    result,                      \* the value load returned (NoValue if it raised)
    error,                       \* the exception load raised (NoError if it returned)
    trace                        \* the observable steps of the call, in order

vars == <<obj, secrets_map, valid_namespaces, secrets_from_env,
          additional_import_mappings, environ, pc, result, error, trace>>

inputs == <<obj, secrets_map, valid_namespaces, secrets_from_env,
            additional_import_mappings, environ>>

(***************************************************************************)
(* Bounds of the model.                                                    *)
(***************************************************************************)
\* Largest number of elements of a generated list and of entries of a
\* generated plain mapping or kwargs mapping.
MaxWidth == 2
\* Largest number of entries of additional_import_mappings.
MaxOverrides == 1

(***************************************************************************)
(* Values.                                                                 *)
(***************************************************************************)
Str(s) == [t |-> "str", v |-> s]
Num(n) == [t |-> "int", v |-> n]
PyNone == [t |-> "none", v |-> <<>>]
List(items) == [t |-> "list", v |-> items]
Entry(key, value) == [k |-> key, v |-> value]
Dict(entries) == [t |-> "dict", v |-> entries]
Instance(cls, kwargs) == [t |-> "obj", v |-> <<cls, kwargs>>]
NoValue == [t |-> "novalue", v |-> <<>>]

Exc(exc, msg, arg) == [exc |-> exc, msg |-> msg, arg |-> arg]
NoError == Exc("", "", "")
Return(value, log) == [val |-> value, err |-> NoError, log |-> log]
Raise(e, log) == [val |-> NoValue, err |-> e, log |-> log]

\* The exceptions Reviver.__call__ raises itself.
MissingSecret(key) == Exc("KeyError", "Missing key", key)
NotSerializable == Exc("NotImplementedError", "doesn't implement serialization", "")
InvalidNamespace == Exc("ValueError", "Invalid namespace", "")
UnsupportedVersion == Exc("ValueError", "cannot be deserialized in current version", "")

Range(s) == {s[i] : i \in 1..Len(s)}

\* dict.get(key, default)
get(value, key, default) ==
    IF \E i \in 1..Len(value.v) : value.v[i].k = key
    THEN value.v[CHOOSE i \in 1..Len(value.v) : value.v[i].k = key].v
    ELSE default

(***************************************************************************)
(* The collaborators: the mapping tables, importlib, the classes.          *)
(***************************************************************************)
DEFAULT_NAMESPACES ==
    <<"langchain", "langchain_core", "langchain_community",
      "langchain_anthropic", "langchain_groq", "langchain_google_genai">>

\* A small stand-in for the merged tables of langchain_core.load.mapping:
\* a current key and a legacy alias, both resolving to the same class.
ALL_SERIALIZABLE_MAPPINGS ==
    (<<"langchain_core", "m", "Foo">> :> <<"langchain_core", "impl", "Foo">>)
    @@ (<<"langchain", "schema", "Foo">> :> <<"langchain_core", "impl", "Foo">>)

\* The importable modules (a module path is its tuple of segments, which
\* ".".join maps one-to-one to the dotted name: no segment holds a dot).
Modules ==
    {<<"langchain_core", "impl">>, <<"langchain_core", "m">>,
     <<"custom", "m">>, <<"custom", "alt">>}

\* What getattr(mod, name) yields: a subclass of Serializable, another
\* class, an object that is no class, or nothing (AttributeError).
SymbolKind(mod, name) ==
    CASE mod = <<"langchain_core", "impl">> /\ name = "Foo" -> "serializable"
      [] mod = <<"langchain_core", "m">> /\ name = "Gone" -> "serializable"
      [] mod = <<"custom", "m">> /\ name \in {"Good", "Picky"} -> "serializable"
      [] mod = <<"custom", "m">> /\ name = "Evil" -> "class"
      [] mod = <<"custom", "m">> /\ name = "fn" -> "function"
      [] mod = <<"custom", "alt">> /\ name = "Other" -> "serializable"
      [] OTHER -> "missing"

\* The classes whose constructor rejects its arguments (a validation error).
Rejecting == {<<"custom", "m", "Picky">>}

(***************************************************************************)
(* Reviver.                                                                *)
(***************************************************************************)
\* merge with the precedence reversed: {**over, **base}.
merge_base_wins(base, over) ==
    [key \in DOMAIN base \cup DOMAIN over |->
        IF key \in DOMAIN base THEN base[key] ELSE over[key]]

\* {**base, **over}: the entries of both, those of `over` winning.
merge(base, over) ==
    [key \in DOMAIN base \cup DOMAIN over |->
        IF key \in DOMAIN over THEN over[key] ELSE base[key]]

\* self.valid_namespaces
all_valid_namespaces(given) ==
    IF given # <<>> THEN DEFAULT_NAMESPACES \o given ELSE DEFAULT_NAMESPACES

\* self.import_mappings
all_import_mappings(additional) ==
    IF DOMAIN additional # {}
    THEN merge(ALL_SERIALIZABLE_MAPPINGS, additional)
    ELSE ALL_SERIALIZABLE_MAPPINGS

\* Reviver.__init__ (None and the empty collection behave alike: `x or dict()`)
Reviver__init__(secrets, namespaces, from_env, additional) ==
    [secrets_from_env |-> from_env,
     secrets_map |-> secrets,
     valid_namespaces |-> all_valid_namespaces(namespaces),
     additional_import_mappings |-> additional,
     import_mappings |-> all_import_mappings(additional)]

\* The three guards of Reviver.__call__.
is_node(value, type) ==
    /\ get(value, "lc", PyNone) = Num(1)
    /\ get(value, "type", PyNone) = Str(type)
    /\ get(value, "id", PyNone) # PyNone

is_secret(value) == is_node(value, "secret")

\* The guard with the type misspelt: it never matches a serialized marker.
is_not_implemented_misspelt(value) == is_node(value, "not-implemented")

is_not_implemented(value) == is_node(value, "not_implemented")

is_constructor(value) == is_node(value, "constructor")

\* The secret branch with the environment consulted before the map.
revive_secret_env_first(self, env, value) ==
    LET id == get(value, "id", PyNone).v
    IN  IF Len(id) # 1
        THEN Raise(Exc("ValueError", "unpack", ""), <<>>)
        ELSE LET key == id[1].v
                 read == <<[e |-> "environ", a |-> key]>>
             IN  IF self.secrets_from_env /\ key \in DOMAIN env /\ env[key] # ""
                 THEN Return(Str(env[key]), read)
                 ELSE IF key \in DOMAIN self.secrets_map
                 THEN Return(Str(self.secrets_map[key]), read)
                 ELSE Raise(MissingSecret(key), read)

\* The secret branch: [key] = value["id"], the map, then the environment.
revive_secret(self, env, value) ==
    LET id == get(value, "id", PyNone).v
    IN  IF Len(id) # 1
        THEN Raise(Exc("ValueError", "unpack", ""), <<>>)
        ELSE LET key == id[1].v
             IN  IF key \in DOMAIN self.secrets_map
                 THEN Return(Str(self.secrets_map[key]), <<>>)
                 ELSE IF ~self.secrets_from_env
                 THEN Raise(MissingSecret(key), <<>>)
                 ELSE IF key \in DOMAIN env /\ env[key] # ""
                 THEN Return(Str(env[key]), <<[e |-> "environ", a |-> key]>>)
                 ELSE Raise(MissingSecret(key),
                            <<[e |-> "environ", a |-> key]>>)

\* The not_implemented branch.
revive_not_implemented(value) ==
    Raise(NotSerializable, <<>>)

\* The allowlist check dropped.
namespace_allowed_any(self, namespace) == namespace # <<>>

\* namespace[0] not in self.valid_namespaces
namespace_allowed(self, namespace) ==
    namespace[1] \in Range(self.valid_namespaces)

\* The reserved root compared with the wrong package name.
is_root_namespace_core(namespace) ==
    Len(namespace) = 1 /\ namespace[1] = "langchain_core"

\* len(namespace) == 1 and namespace[0] == "langchain"
is_root_namespace(namespace) ==
    Len(namespace) = 1 /\ namespace[1] = "langchain"

\* Only the first built-in namespace recognised.
in_default_namespaces_first_only(namespace) ==
    namespace[1] = DEFAULT_NAMESPACES[1]

\* namespace[0] in DEFAULT_NAMESPACES
in_default_namespaces(namespace) ==
    namespace[1] \in Range(DEFAULT_NAMESPACES)

\* importlib.import_module, getattr, issubclass, cls(**kwargs)
instantiate(mod, name, value) ==
    LET imported == <<[e |-> "import", a |-> mod]>>
        looked == imported \o <<[e |-> "getattr", a |-> <<mod, name>>]>>
        kind == SymbolKind(mod, name)
        kwargs == get(value, "kwargs", Dict(<<>>))
        cls == mod \o <<name>>
        called == looked \o <<[e |-> "construct", a |-> <<cls, kwargs>>]>>
    IN  IF mod \notin Modules
        THEN Raise(Exc("ModuleNotFoundError", "No module named", ""), imported)
        ELSE IF kind = "missing"
        THEN Raise(Exc("AttributeError", "has no attribute", name), looked)
        ELSE IF kind = "function"
        THEN Raise(Exc("TypeError", "issubclass() arg 1 must be a class", ""), looked)
        ELSE IF kind # "serializable"
        THEN Raise(InvalidNamespace, looked)
        ELSE IF kwargs.t # "dict"
        THEN Raise(Exc("TypeError", "argument after ** must be a mapping", ""), looked)
        ELSE IF cls \in Rejecting
        THEN Raise(Exc("ValidationError", "validation error", ""), called)
        ELSE Return(Instance(cls, kwargs), called)

\* The constructor branch.
revive_constructor(self, value) ==
    LET id == get(value, "id", PyNone).v
        n == Len(id)
    IN  IF n = 0
        THEN Raise(Exc("ValueError", "unpack", ""), <<>>)
        ELSE
        LET namespace == [i \in 1..(n - 1) |-> id[i].v]
            name == id[n].v
            key == namespace \o <<name>>
        IN  IF namespace = <<>>
            THEN Raise(Exc("IndexError", "list index out of range", ""), <<>>)
            ELSE IF ~namespace_allowed(self, namespace)
            THEN Raise(InvalidNamespace, <<>>)
            ELSE IF is_root_namespace(namespace)
            THEN Raise(InvalidNamespace, <<>>)
            ELSE IF in_default_namespaces(namespace)
            THEN IF key \notin DOMAIN self.import_mappings
                 THEN Raise(UnsupportedVersion, <<>>)
                 ELSE LET import_path == self.import_mappings[key]
                          import_dir == SubSeq(import_path, 1, Len(import_path) - 1)
                          import_obj == import_path[Len(import_path)]
                      IN  instantiate(import_dir, import_obj, value)
            ELSE IF key \in DOMAIN self.additional_import_mappings
            THEN LET import_path == self.import_mappings[key]
                 IN  instantiate(SubSeq(import_path, 1, Len(import_path) - 1),
                                 import_path[Len(import_path)], value)
            ELSE instantiate(namespace, name, value)

\* Reviver.__call__
Reviver__call__(self, env, value) ==
    LET called == <<[e |-> "revive", a |-> value]>>
        r == IF is_secret(value) THEN revive_secret(self, env, value)
             ELSE IF is_not_implemented(value) THEN revive_not_implemented(value)
             ELSE IF is_constructor(value) THEN revive_constructor(self, value)
             ELSE Return(value, <<>>)
    IN  [val |-> r.val, err |-> r.err, log |-> called \o r.log]

(***************************************************************************)
(* The walker.                                                             *)
(***************************************************************************)
RECURSIVE _load(_, _, _)
RECURSIVE load_each(_, _, _)

RECURSIVE load_each_no_abort(_, _, _)

\* The comprehensions with an exception of one value not ending the walk of
\* the others: the first exception is reported once all were loaded.
load_each_no_abort(reviver, env, values) ==
    IF values = <<>>
    THEN Return(<<>>, <<>>)
    ELSE LET first == _load(reviver, env, Head(values))
             rest == load_each_no_abort(reviver, env, Tail(values))
         IN  IF first.err # NoError
             THEN Raise(first.err, first.log \o rest.log)
             ELSE IF rest.err # NoError
             THEN Raise(rest.err, first.log \o rest.log)
             ELSE Return(<<first.val>> \o rest.val, first.log \o rest.log)

\* _load handing a mapping to the Reviver without loading its values first.
_load_unloaded(reviver, env, o) ==
    IF o.t = "dict"
    THEN Reviver__call__(reviver, env, o)
    ELSE IF o.t = "list"
    THEN LET loaded == load_each(reviver, env, o.v)
         IN  IF loaded.err # NoError
             THEN loaded
             ELSE Return(List(loaded.val), loaded.log)
    ELSE Return(o, <<>>)

\* The comprehensions of _load: the values in order, stopping at the first
\* exception.
load_each(reviver, env, values) ==
    IF values = <<>>
    THEN Return(<<>>, <<>>)
    ELSE LET first == _load(reviver, env, Head(values))
         IN  IF first.err # NoError
             THEN first
             ELSE LET rest == load_each(reviver, env, Tail(values))
                  IN  IF rest.err # NoError
                      THEN Raise(rest.err, first.log \o rest.log)
                      ELSE Return(<<first.val>> \o rest.val, first.log \o rest.log)

\* load._load
_load(reviver, env, o) ==
    IF o.t = "dict"
    THEN LET loaded == load_each(reviver, env, [i \in 1..Len(o.v) |-> o.v[i].v])
         IN  IF loaded.err # NoError
             THEN loaded
             ELSE LET loaded_obj ==
                          Dict([i \in 1..Len(o.v) |-> Entry(o.v[i].k, loaded.val[i])])
                      revived == Reviver__call__(reviver, env, loaded_obj)
                  IN  [val |-> revived.val, err |-> revived.err,
                       log |-> loaded.log \o revived.log]
    ELSE IF o.t = "list"
    THEN LET loaded == load_each(reviver, env, o.v)
         IN  IF loaded.err # NoError
             THEN loaded
             ELSE Return(List(loaded.val), loaded.log)
    ELSE Return(o, <<>>)

(***************************************************************************)
(* The inputs of a call.                                                   *)
(***************************************************************************)
\* The non-empty sequences over S of length at most n.
Seqs(S, n) == UNION {[1..m -> S] : m \in 1..n}

\* A mapping {"lc": lc, "type": type, "id": [...], "kwargs": {...}}; the
\* entry "id" is left out when id is PyNone, "kwargs" when kwargs is PyNone.
Node(lc, type, id, kwargs) ==
    Dict(<<Entry("lc", Num(lc)), Entry("type", Str(type))>>
         \o (IF id = PyNone THEN <<>> ELSE <<Entry("id", id)>>)
         \o (IF kwargs = PyNone THEN <<>> ELSE <<Entry("kwargs", kwargs)>>))

IdOf(segments) == List([i \in 1..Len(segments) |-> Str(segments[i])])

EntryKeys == <<"a", "b", "c", "d">>

\* A mapping without "lc": {"a": values[1], "b": values[2], ...}
Plain(values) == Dict([i \in 1..Len(values) |-> Entry(EntryKeys[i], values[i])])

ConstructorIds ==
    {<<>>, <<"langchain">>, <<"custom">>, <<"langchain", "Foo">>,
     <<"langchain_core", "m", "Foo">>, <<"langchain", "schema", "Foo">>,
     <<"langchain_core", "m", "Gone">>, <<"custom", "Good">>,
     <<"custom", "m", "Good">>, <<"custom", "m", "Evil">>,
     <<"custom", "m", "fn">>, <<"custom", "m", "Picky">>,
     <<"custom", "m", "Nope">>, <<"custom", "nomod", "X">>}

SecretIds == {<<>>, <<"K">>, <<"K", "J">>}

\* The single mappings: every kind of node, with and without an id, and
\* look-alikes that are no node (lc is not 1, the type is not recognised).
FlatNodes ==
    {Node(1, "secret", IdOf(id), PyNone) : id \in SecretIds}
    \cup {Node(1, "secret", PyNone, PyNone)}
    \cup {Node(1, "not_implemented", IdOf(<<"builtins", "object">>), PyNone),
          Node(1, "not_implemented", PyNone, PyNone)}
    \cup {Node(1, "constructor", IdOf(id), PyNone) : id \in ConstructorIds}
    \cup {Node(1, "constructor", PyNone, PyNone),
          Node(1, "constructor", IdOf(<<"custom", "m", "Good">>), Str("x")),
          Node(2, "constructor", IdOf(<<"custom", "m", "Good">>), PyNone),
          Node(1, "other", IdOf(<<"custom", "m", "Good">>), PyNone)}

\* The leaves of the generated trees.
Atoms ==
    {Str("x"),
     Node(1, "secret", IdOf(<<"K">>), PyNone),
     Node(1, "not_implemented", IdOf(<<"builtins", "object">>), PyNone),
     Node(1, "not_implemented", PyNone, PyNone),
     Node(1, "constructor", IdOf(<<"custom", "m", "Good">>), PyNone)}

Lists1 == {List(s) : s \in Seqs(Atoms, MaxWidth)}

Plains1 == {Plain(s) : s \in Seqs(Atoms, MaxWidth)}

Constructors1 ==
    {Node(1, "constructor", IdOf(<<"langchain_core", "m", "Foo">>), kwargs) :
        kwargs \in Plains1 \cup {Dict(<<>>)}}

\* Trees of depth two: a node nested in a list, in a plain mapping's value
\* and in the kwargs of a constructor node.
Trees ==
    Lists1 \cup Plains1 \cup Constructors1
    \cup {List(<<x>>) : x \in Lists1 \cup Plains1 \cup Constructors1}
    \cup {Node(1, "constructor", IdOf(<<"langchain_core", "m", "Foo">>), Plain(<<x>>)) :
            x \in Lists1 \cup Constructors1}
    \cup {Node(1, "not_implemented", IdOf(<<"builtins", "object">>), Plain(<<x>>)) :
            x \in Atoms}

\* The caller's overrides are drawn from this table.
OverrideTable ==
    (<<"langchain_core", "m", "Foo">> :> <<"custom", "m", "Good">>)
    @@ (<<"custom", "m", "Good">> :> <<"custom", "alt", "Other">>)
    @@ (<<"langchain", "Foo">> :> <<"langchain_core", "impl", "Foo">>)
    @@ (<<"langchain_core", "m", "Gone">> :> <<"custom", "m", "Evil">>)
    @@ (<<"custom", "m", "Evil">> :> <<"custom", "m", "fn">>)

Overrides ==
    {[key \in S |-> OverrideTable[key]] :
        S \in {T \in SUBSET DOMAIN OverrideTable : Cardinality(T) <= MaxOverrides}}

NoEntries == [key \in {} |-> ""]

Init ==
    /\ \/ /\ obj \in FlatNodes
          /\ additional_import_mappings \in Overrides
          /\ environ \in {NoEntries, "K" :> "", "K" :> "e"}
       \/ /\ obj \in Trees
          /\ additional_import_mappings = NoEntries
          /\ environ \in {NoEntries, "K" :> "e"}
    /\ secrets_map \in {NoEntries, "K" :> "s"}
    /\ valid_namespaces \in {<<>>, <<"custom">>}
    /\ secrets_from_env \in BOOLEAN
    /\ pc = "start"
    /\ result = NoValue
    /\ error = NoError
    /\ trace = <<>>

\* load(obj, secrets_map=, valid_namespaces=, secrets_from_env=,
\*      additional_import_mappings=)
load ==
    /\ pc = "start"
    /\ LET reviver == Reviver__init__(secrets_map, valid_namespaces,
                                      secrets_from_env, additional_import_mappings)
           r == _load(reviver, environ, obj)
       IN  /\ result' = r.val
           /\ error' = r.err
           /\ trace' = r.log
    /\ pc' = "done"
    /\ UNCHANGED inputs

Next == load

Spec == Init /\ [][Next]_vars

(***************************************************************************)
(* Vocabulary of the properties, read off the finished call.               *)
(***************************************************************************)
\* The positions of the trace where the Reviver was invoked, and their count.
Revived == {i \in 1..Len(trace) : trace[i].e = "revive"}

\* The position of the j-th invocation of the Reviver.
RevivedAt(j) == CHOOSE i \in Revived : Cardinality({h \in Revived : h <= i}) = j

\* The steps taken by the invocation at position i: up to the next invocation.
StepsOf(i) ==
    {j \in (i + 1)..Len(trace) : \A h \in (i + 1)..j : trace[h].e # "revive"}

\* What the invocation at position i ended with: the call's error when it
\* is the last one, no error when the walk went on after it.
OutcomeOf(i) == IF \E h \in Revived : h > i THEN NoError ELSE error

\* A mapping with lc = 1 and the given type.
NodeOfType(value, type) ==
    /\ value.t = "dict"
    /\ \E i \in 1..Len(value.v) : value.v[i].k = "lc" /\ value.v[i].v = Num(1)
    /\ \E i \in 1..Len(value.v) : value.v[i].k = "type" /\ value.v[i].v = Str(type)

HasId(value) ==
    value.t = "dict" /\ \E i \in 1..Len(value.v) : value.v[i].k = "id" /\ value.v[i].v.t = "list"

\* The segments of a node's id, as strings.
Segments(value) ==
    LET id == value.v[CHOOSE i \in 1..Len(value.v) : value.v[i].k = "id"].v.v
    IN  [i \in 1..Len(id) |-> id[i].v]

Front(s) == SubSeq(s, 1, Len(s) - 1)

Last(s) == s[Len(s)]

\* allowedNamespaces: the built-in set plus the caller's validNamespaces.
AllowedNamespaces == Range(DEFAULT_NAMESPACES) \cup Range(valid_namespaces)

\* The keys of importMappings: the built-in table plus the caller's overrides.
MappedKeys == DOMAIN ALL_SERIALIZABLE_MAPPINGS \cup DOMAIN additional_import_mappings

RECURSIVE PostOrder(_)
RECURSIVE PostOrderEach(_)
RECURSIVE Parts(_)

PostOrderEach(values) ==
    IF values = <<>> THEN <<>>
    ELSE PostOrder(Head(values)) \o PostOrderEach(Tail(values))

\* The mappings of a tree in post-order: children before their parent,
\* entries and elements in their order.
PostOrder(value) ==
    IF value.t = "dict"
    THEN PostOrderEach([i \in 1..Len(value.v) |-> value.v[i].v]) \o <<value>>
    ELSE IF value.t = "list" THEN PostOrderEach(value.v)
    ELSE <<>>

\* A value and everything inside it, the arguments of live objects included.
Parts(value) ==
    {value} \cup
    (IF value.t = "dict" THEN UNION {Parts(value.v[i].v) : i \in 1..Len(value.v)}
     ELSE IF value.t = "list" THEN UNION {Parts(value.v[i]) : i \in 1..Len(value.v)}
     ELSE IF value.t = "obj" THEN Parts(value.v[2])
     ELSE {})

\* A node the Reviver has still to replace.
RawNode(value) ==
    /\ HasId(value)
    /\ \/ NodeOfType(value, "secret")
       \/ NodeOfType(value, "not_implemented")
       \/ NodeOfType(value, "constructor")

\* A value the walker leaves as it is: a scalar or a list of scalars.
Ground(value) ==
    \/ value.t \in {"str", "int", "none"}
    \/ value.t = "list" /\ \A i \in 1..Len(value.v) : value.v[i].t \in {"str", "int", "none"}

\* The mapping `revived` is the mapping `original` after its values were loaded.
SameNode(revived, original) ==
    /\ revived.t = "dict"
    /\ Len(revived.v) = Len(original.v)
    /\ \A i \in 1..Len(original.v) :
        /\ revived.v[i].k = original.v[i].k
        /\ Ground(original.v[i].v) => revived.v[i].v = original.v[i].v

\* The Reviver the call configured.
TheReviver ==
    Reviver__init__(secrets_map, valid_namespaces, secrets_from_env,
                    additional_import_mappings)

(***************************************************************************)
(* Properties.                                                             *)
(***************************************************************************)
\* A constructor node with a namespace (an id of two segments or more).
ConstructorWithNamespace(value) ==
    NodeOfType(value, "constructor") /\ HasId(value) /\ Len(Segments(value)) >= 2

\* C1: a constructor node whose namespace is non-empty and whose first
\* segment is not in allowedNamespaces fails with InvalidNamespace, and
\* nothing is imported, looked up or constructed for it, whatever the
\* mappings and overrides hold.
C1_DisallowedNamespaceRejected ==
    pc = "done" =>
        \A i \in Revived :
            LET node == trace[i].a
            IN  (ConstructorWithNamespace(node)
                 /\ Segments(node)[1] \notin AllowedNamespaces)
                => (i = Len(trace) /\ error = InvalidNamespace)

\* C1 happens: a node of a namespace that is not allowed, whose key the
\* caller overrides and whose symbol exists and is constructible, was rejected.
C1_Witness ==
    /\ pc = "done"
    /\ error = InvalidNamespace
    /\ \E i \in Revived :
        /\ ConstructorWithNamespace(trace[i].a)
        /\ Segments(trace[i].a)[1] \notin AllowedNamespaces
        /\ Segments(trace[i].a) \in DOMAIN additional_import_mappings
        /\ SymbolKind(Front(Segments(trace[i].a)), Last(Segments(trace[i].a))) = "serializable"

\* C2: construct is invoked only on a symbol that passes the
\* constructible-family check, and a resolved symbol that fails the check
\* makes the node fail with InvalidNamespace without being instantiated.
C2_OnlyConstructibleInstantiated ==
    pc = "done" =>
        /\ \A i \in 1..Len(trace) :
            trace[i].e = "construct" =>
                /\ i > 1
                /\ trace[i - 1].e = "getattr"
                /\ trace[i - 1].a[1] \o <<trace[i - 1].a[2]>> = trace[i].a[1]
                /\ SymbolKind(trace[i - 1].a[1], trace[i - 1].a[2]) = "serializable"
        /\ \A i \in 1..Len(trace) :
            (trace[i].e = "getattr"
             /\ SymbolKind(trace[i].a[1], trace[i].a[2]) \notin {"serializable", "missing"})
            => (i = Len(trace) /\ error = InvalidNamespace)

\* C3: a constructor node whose id has a single segment (an empty
\* namespace) fails with InvalidNamespace, whatever is allowlisted.
C3_SingleSegmentIdRejected ==
    pc = "done" =>
        \A i \in Revived :
            LET node == trace[i].a
            IN  (NodeOfType(node, "constructor") /\ HasId(node)
                 /\ Len(Segments(node)) = 1)
                => (i = Len(trace) /\ error = InvalidNamespace)

\* A constructor node of a built-in namespace whose key is in no mapping.
UnmappedBuiltin(value) ==
    /\ ConstructorWithNamespace(value)
    /\ Segments(value)[1] \in Range(DEFAULT_NAMESPACES)
    /\ Segments(value) \notin MappedKeys

\* C4 as stated: a constructor node of a built-in namespace whose key has
\* no entry in importMappings fails with UnsupportedVersion and nothing is
\* imported for it.
C4_UnmappedBuiltinUnsupported ==
    pc = "done" =>
        \A i \in Revived :
            UnmappedBuiltin(trace[i].a)
            => (i = Len(trace) /\ error = UnsupportedVersion)

\* C4 amended: the same, for every namespace but the single segment
\* "langchain" (which fails with InvalidNamespace before the lookup).
C4_UnmappedBuiltinUnsupportedBelowRoot ==
    pc = "done" =>
        \A i \in Revived :
            (UnmappedBuiltin(trace[i].a)
             /\ Front(Segments(trace[i].a)) # <<"langchain">>)
            => (i = Len(trace) /\ error = UnsupportedVersion)

\* C4 happens: an unmapped built-in key whose namespace names an importable
\* module holding a constructible symbol of that name was refused.
C4_Witness ==
    /\ pc = "done"
    /\ error = UnsupportedVersion
    /\ \E i \in Revived :
        /\ UnmappedBuiltin(trace[i].a)
        /\ Front(Segments(trace[i].a)) \in Modules
        /\ SymbolKind(Front(Segments(trace[i].a)), Last(Segments(trace[i].a))) = "serializable"

\* A secret node with exactly one key.
SecretWithKey(value) ==
    NodeOfType(value, "secret") /\ HasId(value) /\ Len(Segments(value)) = 1

\* C5: a secret node with key K yields secrets[K] when K is in the map,
\* without reading the environment; otherwise the environment's value when
\* secretsFromEnv holds and that value is non-empty; otherwise it fails
\* with MissingSecret naming K.
C5_SecretResolution ==
    pc = "done" =>
        \A i \in Revived :
            SecretWithKey(trace[i].a) =>
                LET K == Segments(trace[i].a)[1]
                    root == trace[i].a = obj
                IN  IF K \in DOMAIN secrets_map
                    THEN /\ StepsOf(i) = {}
                         /\ OutcomeOf(i) = NoError
                         /\ root => result = Str(secrets_map[K])
                    ELSE IF secrets_from_env /\ K \in DOMAIN environ /\ environ[K] # ""
                    THEN /\ OutcomeOf(i) = NoError
                         /\ root => result = Str(environ[K])
                    ELSE /\ error = MissingSecret(K)
                         /\ \A h \in Revived : h <= i

\* C5 happens: the map and the environment hold different values for K and
\* the map's value is returned.
C5_Witness ==
    /\ pc = "done"
    /\ SecretWithKey(obj)
    /\ "K" \in DOMAIN secrets_map
    /\ "K" \in DOMAIN environ
    /\ secrets_from_env
    /\ environ["K"] \notin {"", secrets_map["K"]}
    /\ result = Str(secrets_map["K"])

Min(S) == CHOOSE n \in S : \A m \in S : n <= m

\* A not_implemented node: lc = 1, type = not_implemented, and the id such
\* a node carries.
NotImplementedWithId(value) == NodeOfType(value, "not_implemented") /\ HasId(value)

\* The positions of the not_implemented nodes in the post-order of the input.
MarkerWithIdPositions ==
    {j \in 1..Len(PostOrder(obj)) : NotImplementedWithId(PostOrder(obj)[j])}

\* C6 as stated: a not_implemented node anywhere in the input makes the
\* call fail with NotSerializable; it is never returned and never passed
\* to a constructor.  (Stated for the nodes that carry an id, as the
\* serializer writes them: the statement for every mapping with lc = 1 and
\* type = not_implemented implies this one.)
C6_NotImplementedAlwaysNotSerializable ==
    pc = "done" =>
        /\ MarkerWithIdPositions # {} =>
                (error = NotSerializable /\ result = NoValue)
        /\ \A part \in Parts(result) : ~NotImplementedWithId(part)
        /\ \A i \in 1..Len(trace) :
            trace[i].e = "construct" =>
                \A part \in Parts(trace[i].a[2]) : ~NotImplementedWithId(part)

\* C6 amended: a not_implemented node that carries an id makes the call
\* fail: with NotSerializable when the walk reaches it, with the error of
\* the node that failed before it in post-order otherwise; it is never
\* returned and never passed to a constructor.
C6_NotImplementedWithIdFailsCall ==
    pc = "done" =>
        /\ MarkerWithIdPositions # {} =>
                /\ error # NoError
                /\ result = NoValue
                /\ Cardinality(Revived) <= Min(MarkerWithIdPositions)
                /\ Cardinality(Revived) = Min(MarkerWithIdPositions)
                    => error = NotSerializable
        /\ \A part \in Parts(result) : ~NotImplementedWithId(part)
        /\ \A i \in 1..Len(trace) :
            trace[i].e = "construct" =>
                \A part \in Parts(trace[i].a[2]) : ~NotImplementedWithId(part)

\* C6 happens: a not_implemented node nested in the kwargs of a constructor
\* node, after a sibling that was revived, ends the call.
C6_Witness ==
    /\ pc = "done"
    /\ error = NotSerializable
    /\ MarkerWithIdPositions # {}
    /\ Min(MarkerWithIdPositions) >= 2
    /\ Len(PostOrder(obj)) >= Min(MarkerWithIdPositions) + 2
    /\ NodeOfType(obj, "constructor")

\* C7: when the Reviver is invoked on a mapping, every value of it has
\* been revived already, at any depth; a constructor is called with the
\* resolved secret or the live object, never with the raw node.
C7_ChildrenRevivedFirst ==
    pc = "done" =>
        /\ \A i \in Revived :
            \A n \in 1..Len(trace[i].a.v) :
                \A part \in Parts(trace[i].a.v[n].v) : ~RawNode(part)
        /\ \A i \in 1..Len(trace) :
            trace[i].e = "construct" =>
                \A part \in Parts(trace[i].a[2]) : ~RawNode(part)
        /\ \A j \in 1..Cardinality(Revived) :
            SameNode(trace[RevivedAt(j)].a, PostOrder(obj)[j])

\* C7 happens: a constructor whose kwargs hold a secret node and a
\* constructor node was called with the secret value and the live object.
C7_Witness ==
    /\ pc = "done"
    /\ error = NoError
    /\ result.t = "obj"
    /\ obj.t = "dict"
    /\ \E n \in 1..Len(obj.v) :
        /\ obj.v[n].k = "kwargs"
        /\ obj.v[n].v.t = "dict"
        /\ Len(obj.v[n].v.v) = 2
        /\ SecretWithKey(obj.v[n].v.v[1].v)
        /\ NodeOfType(obj.v[n].v.v[2].v, "constructor")
        /\ result.v[2].v[1].v = Str(secrets_map["K"])
        /\ result.v[2].v[2].v.t = "obj"

\* A constructor node that reaches symbol resolution with an overridden key.
OverriddenAndResolvable(value) ==
    /\ ConstructorWithNamespace(value)
    /\ Segments(value) \in DOMAIN additional_import_mappings
    /\ Segments(value)[1] \in AllowedNamespaces
    /\ Front(Segments(value)) # <<"langchain">>

\* C8: a constructor node whose key is in the caller's overrides is
\* resolved through the override (its module, its symbol name), whether
\* the key is also in the built-in table or belongs to a custom namespace.
C8_OverridePrecedence ==
    pc = "done" =>
        \A i \in Revived :
            OverriddenAndResolvable(trace[i].a) =>
                LET path == additional_import_mappings[Segments(trace[i].a)]
                IN  /\ i + 1 <= Len(trace)
                    /\ trace[i + 1] = [e |-> "import", a |-> Front(path)]
                    /\ Front(path) \in Modules =>
                        /\ i + 2 <= Len(trace)
                        /\ trace[i + 2] = [e |-> "getattr", a |-> <<Front(path), Last(path)>>]
                    /\ \A j \in StepsOf(i) :
                        /\ trace[j].e = "import" => trace[j].a = Front(path)
                        /\ trace[j].e = "construct" => trace[j].a[1] = path

\* C8 happens: a key of the built-in table, overridden with another path,
\* was constructed from the override's class.
C8_Witness ==
    /\ pc = "done"
    /\ OverriddenAndResolvable(obj)
    /\ Segments(obj) \in DOMAIN ALL_SERIALIZABLE_MAPPINGS
    /\ additional_import_mappings[Segments(obj)] # ALL_SERIALIZABLE_MAPPINGS[Segments(obj)]
    /\ result.t = "obj"
    /\ result.v[1] = additional_import_mappings[Segments(obj)]

\* A constructor node whose namespace is the one segment "langchain".
RootNamespaced(value) ==
    /\ ConstructorWithNamespace(value)
    /\ Front(Segments(value)) = <<"langchain">>

\* C9: a constructor node whose namespace is exactly <<"langchain">> fails
\* with InvalidNamespace for every name, mapped or overridden or not, and
\* nothing is imported or constructed for it.
C9_RootNamespaceRejected ==
    pc = "done" =>
        \A i \in Revived :
            RootNamespaced(trace[i].a)
            => (i = Len(trace) /\ error = InvalidNamespace)

\* C9 happens: a node of namespace <<"langchain">> whose key is mapped was
\* rejected.
C9_Witness ==
    /\ pc = "done"
    /\ error = InvalidNamespace
    /\ RootNamespaced(obj)
    /\ Segments(obj) \in MappedKeys

\* C10: the call returns either a revived value or one error; the Reviver
\* is invoked on the mappings in post-order, each invocation before the
\* last returned, the error is the one the last invocation raised, and
\* nothing is revived or constructed after it.
C10_FirstErrorAborts ==
    pc = "done" =>
        LET order == PostOrder(obj)
            count == Cardinality(Revived)
        IN  /\ (error = NoError) # (result = NoValue)
            /\ count <= Len(order)
            /\ error = NoError => count = Len(order)
            /\ \A j \in 1..count :
                LET i == RevivedAt(j)
                    call == Reviver__call__(TheReviver, environ, trace[i].a)
                IN  /\ SameNode(trace[i].a, order[j])
                    /\ call.err = (IF j = count THEN error ELSE NoError)
                    /\ Len(call.log) = Cardinality(StepsOf(i)) + 1
                    /\ \A h \in 1..Len(call.log) : trace[i + h - 1] = call.log[h]

\* C10 happens: a call failed after a node was constructed and before the
\* enclosing constructor node and its kwargs were handed to the Reviver.
C10_Witness ==
    /\ pc = "done"
    /\ error # NoError
    /\ Cardinality(Revived) >= 2
    /\ Cardinality(Revived) + 2 <= Len(PostOrder(obj))
    /\ \E i \in 1..Len(trace) : trace[i].e = "construct"
    /\ NodeOfType(obj, "constructor")

====
